---- MODULE Spec2Model ----
(***************************************************************************)
(* Cash-flow ledger (caixa-simples): role predicates, the transactions     *)
(* store, the user/role directory and registration.                        *)
(*                                                                         *)
(* Two access paths reach the same logical tables:                         *)
(*   - the `db` edge function (serve, src/src/pages/Index.tsx 156-431),    *)
(*     which runs SQL over a pooled connection, one autocommitted          *)
(*     statement per await;                                                *)
(*   - the Supabase client (useTransactions, Users page), whose statements *)
(*     are filtered by the row-level policies of the migration, evaluated  *)
(*     for auth.uid() = the session user.                                  *)
(***************************************************************************)
EXTENDS Integers, Sequences, FiniteSets, TLC

\* ---------------------------------------------------------------- bounds
NumUsers == 2
MaxTx == 2
NumProcs == 3
MaxNow == 1
MaxLen == 2

\* ------------------------------------------------------------- constants
None == 0

AppRole == {"admin", "view_only", "edit", "insert_expenses", "insert_income"}

TransactionType == {"income", "expense"}

UserIds == 1..NumUsers

Procs == 1..NumProcs

EmailOf(i) == i

Password == 1
WrongPassword == 2

VARIABLES
  users,          \* table users: set of [id, email, password]
  profiles,       \* table profiles: set of [id, email]
  user_roles,     \* table user_roles: set of [id, user_id, role]
  transactions,   \* table transactions: set of rows
  nextId,         \* next value handed out by gen_random_uuid()
  now,            \* value of NOW()
  user,           \* AuthProvider state: session user id, or None
  roles,          \* AuthProvider state: roles array
  storedUserId,   \* localStorage[USER_STORAGE_KEY], or None
  txList,         \* useTransactions state: transactions array
  pageUsers,      \* Users page state: users array, as a set of [id, role, role_id]
  selectedType,   \* TransactionForm state: the type field, "none" while not rendered
  pc,             \* per request in flight: its position
  loc,            \* per request in flight: its local variables
  resp            \* the response of the last request

vars == <<users, profiles, user_roles, transactions, nextId, now, user, roles,
          storedUserId, txList, pageUsers, selectedType, pc, loc, resp>>

\* ------------------------------------------------------------ helpers
Range(s) == {s[i] : i \in 1..Len(s)}

\* every array holding the elements of S once each, in any order
RECURSIVE ArraysOf(_)
ArraysOf(S) ==
  IF S = {} THEN {<<>>}
  ELSE UNION {{<<x>> \o a : a \in ArraysOf(S \ {x})} : x \in S}

\* roles.includes(r)
includes(arr, r) == \E i \in 1..Len(arr) : arr[i] = r

\* ------------------------------------------- application-layer predicates
isAdmin(rs) == includes(rs, "admin")

canView(rs) == Len(rs) > 0

canEdit(rs) == isAdmin(rs) \/ includes(rs, "edit")

canInsertExpense(rs) ==
  isAdmin(rs) \/ includes(rs, "edit") \/ includes(rs, "insert_expenses")

canInsertIncome(rs) ==
  isAdmin(rs) \/ includes(rs, "edit") \/ includes(rs, "insert_income")

canDelete_adminOnly(rs) == isAdmin(rs)

canDelete(rs) == isAdmin(rs) \/ includes(rs, "edit")

\* ------------------------------------------------- store-layer functions
can_delete(_user_id) ==
  \E r \in user_roles : r.user_id = _user_id /\ r.role \in {"admin", "edit"}

can_edit(_user_id) ==
  \E r \in user_roles : r.user_id = _user_id /\ r.role \in {"admin", "edit"}

can_insert_expense(_user_id) ==
  \E r \in user_roles :
     r.user_id = _user_id /\ r.role \in {"admin", "edit", "insert_expenses"}

can_insert_income_noEdit(_user_id) ==
  \E r \in user_roles :
     r.user_id = _user_id /\ r.role \in {"admin", "insert_income"}

can_insert_income(_user_id) ==
  \E r \in user_roles :
     r.user_id = _user_id /\ r.role \in {"admin", "edit", "insert_income"}

can_view(_user_id) ==
  \E r \in user_roles :
     r.user_id = _user_id
     /\ r.role \in {"admin", "view_only", "edit", "insert_expenses", "insert_income"}

has_role(_user_id, _role) ==
  \E r \in user_roles : r.user_id = _user_id /\ r.role = _role

\* the role set of a user: the roles of its user_roles rows
RolesOf(u) == {r.role : r \in {x \in user_roles : x.user_id = u}}

\* ids of the rows present at the start; later ids come from nextId
RoleIdx(r) == CHOOSE i \in 1..5 : <<"admin", "view_only", "edit", "insert_expenses", "insert_income">>[i] = r

InitRoleId(u, r) == NumUsers + (u - 1) * Cardinality(AppRole) + RoleIdx(r)

FirstFreeId == NumUsers + NumUsers * Cardinality(AppRole) + 1

\* ------------------------------------------------------------ responses
\* op: the request; via: "serve" (edge function) or "client" (Supabase
\* client); caller: the user the request is made by; error: "" on success
NoResp ==
  [op |-> "none", via |-> "none", caller |-> None, error |-> "", rows |-> <<>>, id |-> None]

Ok(op, via, caller, rows, id) ==
  [op |-> op, via |-> via, caller |-> caller, error |-> "", rows |-> rows, id |-> id]

Err(op, via, caller, msg, id) ==
  [op |-> op, via |-> via, caller |-> caller, error |-> msg, rows |-> <<>>, id |-> id]

\* ------------------------------------------------- new-transaction form
\* Index: const canAddTransaction = canInsertExpense || canInsertIncome
canAddTransaction(r) == canInsertExpense(r) \/ canInsertIncome(r)

\* a default that is income whatever the flags
defaultType_income(r) == "income"

\* TransactionForm: const defaultType = canInsertExpense ? 'expense' : 'income'
defaultType(r) == IF canInsertExpense(r) THEN "expense" ELSE "income"

canSelectBoth(r) == canInsertExpense(r) /\ canInsertIncome(r)

\* the type field after a render of Index from scratch with roles array r:
\* {canAddTransaction && <TransactionForm ... />}, useForm defaultValues
renderedType(r) == IF canAddTransaction(r) THEN defaultType(r) ELSE "none"

\* ---------------------------------------------------------- AuthProvider
\* setUserData(userData) with userData = [id, roles]; NullUser for null
NullUser == [id |-> None, roles |-> <<>>]

setUserData(userData) ==
  IF userData.id # None
    THEN /\ user' = userData.id
         /\ roles' = userData.roles
         /\ storedUserId' = userData.id
    ELSE /\ user' = None
         /\ roles' = <<>>
         /\ storedUserId' = None

\* serve, case 'login': the rows of the users/user_roles join
LoginRows(email, password) ==
  UNION {{[id |-> u.id, roles |-> a] : a \in ArraysOf(RolesOf(u.id))} :
           u \in {x \in users : x.email = email /\ x.password = password}}

\* serve, case 'getUser'
GetUserRows(userId) ==
  UNION {{[id |-> u.id, roles |-> a] : a \in ArraysOf(RolesOf(u.id))} :
           u \in {x \in users : x.id = userId}}

signIn(email, password) ==
  /\ IF LoginRows(email, password) = {}
       THEN /\ resp' = Err("login", "serve", None, "Invalid login credentials", None)
            /\ UNCHANGED <<user, roles, storedUserId>>
       ELSE \E data \in LoginRows(email, password) :
               /\ resp' = Ok("login", "serve", data.id, <<>>, data.id)
               /\ setUserData(data)
  /\ UNCHANGED <<users, profiles, user_roles, transactions, nextId, now, txList, pageUsers, pc, loc>>
  /\ selectedType' = renderedType(roles')

\* a logout that forgets the user but leaves the stored id in place
signOut_keepsStored ==
  /\ user' = None
  /\ roles' = <<>>
  /\ UNCHANGED storedUserId
  /\ resp' = NoResp
  /\ UNCHANGED <<users, profiles, user_roles, transactions, nextId, now, txList, pageUsers, pc, loc>>
  /\ selectedType' = renderedType(roles')

signOut ==
  /\ setUserData(NullUser)
  /\ resp' = NoResp
  /\ UNCHANGED <<users, profiles, user_roles, transactions, nextId, now, txList, pageUsers, pc, loc>>
  /\ selectedType' = renderedType(roles')

\* page load: React state starts empty, then checkSession restores it
checkSession ==
  /\ IF storedUserId # None
       THEN IF GetUserRows(storedUserId) # {}
              THEN \E data \in GetUserRows(storedUserId) :
                      /\ resp' = Ok("getUser", "serve", storedUserId, <<>>, data.id)
                      /\ setUserData(data)
              ELSE /\ resp' = Ok("getUser", "serve", storedUserId, <<>>, None)
                   /\ user' = None
                   /\ roles' = <<>>
                   /\ storedUserId' = None
       ELSE /\ resp' = NoResp
            /\ user' = None
            /\ roles' = <<>>
            /\ UNCHANGED storedUserId
  /\ txList' = <<>>
  /\ pageUsers' = {}
  /\ UNCHANGED <<users, profiles, user_roles, transactions, nextId, now, pc, loc>>
  /\ selectedType' = renderedType(roles')

\* ------------------------------------------------------- transactions
PaymentMethod ==
  {"dinheiro", "pix", "cartao_credito", "cartao_debito", "transferencia",
   "boleto", "cheque", "outro"}

\* a JS Date is an instant counted in units of 1/UnitsPerDay day (UTC);
\* a SQL date is a day number
UnitsPerDay == 2

\* date.toISOString().split('T')[0]
toISODate(instant) == instant \div UnitsPerDay

\* new Date('YYYY-MM-DD')
newDate(day) == day * UnitsPerDay

TxFields == {"date", "type", "client_supplier", "amount", "description", "payment_method"}

\* what the table's column types and NOT NULL constraints accept ("null" is
\* a null text value; date and amount are always sent as numbers)
RowAccepted(data) ==
  /\ data.type \in TransactionType
  /\ data.payment_method \in PaymentMethod
  /\ data.client_supplier # "null"

\* the columns of d that the table's types accept, for the columns present
ColumnsAccepted(d) ==
  /\ "type" \in DOMAIN d => d.type \in TransactionType
  /\ "payment_method" \in DOMAIN d => d.payment_method \in PaymentMethod
  /\ "client_supplier" \in DOMAIN d => d.client_supplier # "null"

NewRow(id, data) ==
  [id |-> id, user_id |-> data.user_id, date |-> data.date, type |-> data.type,
   client_supplier |-> data.client_supplier, amount |-> data.amount,
   description |-> data.description, payment_method |-> data.payment_method,
   created_at |-> now, updated_at |-> now]

\* UPDATE ... SET <the columns of d>, updated_at = NOW()
UpdatedRow(t, d) ==
  [f \in DOMAIN t |->
     IF f \in DOMAIN d THEN d[f] ELSE IF f = "updated_at" THEN now ELSE t[f]]

\* ORDER BY: x sorts strictly before y
DateDescCreatedDesc(x, y) ==
  x.date > y.date \/ (x.date = y.date /\ x.created_at > y.created_at)

DateDesc(x, y) == x.date > y.date

\* every array of the rows of S that the ORDER BY clause allows (rows the
\* clause does not separate come in any order)
OrderByDateCreatedAt(S) ==
  {a \in ArraysOf(S) : \A i, j \in 1..Len(a) : i < j => ~DateDescCreatedDesc(a[j], a[i])}

OrderByDate(S) ==
  {a \in ArraysOf(S) : \A i, j \in 1..Len(a) : i < j => ~DateDesc(a[j], a[i])}

\* ------------------------------------------------- serve: transactions
IdsLeft == nextId < FirstFreeId + MaxTx

ServeRest ==
  <<users, profiles, user_roles, user, roles, storedUserId, txList, pageUsers, selectedType,
    pc, loc, now>>

\* case 'getTransactions'
serve_getTransactions(caller, userId) ==
  /\ \E a \in OrderByDateCreatedAt({t \in transactions : t.user_id = userId}) :
        resp' = Ok("getTransactions", "serve", caller, a, None)
  /\ UNCHANGED <<transactions, nextId>>
  /\ UNCHANGED ServeRest

\* case 'insertTransaction'
serve_insertTransaction(caller, data) ==
  /\ IdsLeft
  /\ IF RowAccepted(data)
       THEN /\ transactions' = transactions \cup {NewRow(nextId, data)}
            /\ nextId' = nextId + 1
            /\ resp' = Ok("insertTransaction", "serve", caller, <<NewRow(nextId, data)>>, nextId)
       ELSE /\ resp' = Err("insertTransaction", "serve", caller, "db error", None)
            /\ UNCHANGED <<transactions, nextId>>
  /\ UNCHANGED ServeRest

\* case 'updateTransaction'; data holds the supplied (not undefined) fields
serve_updateTransaction(caller, id, data) ==
  /\ IF DOMAIN data # {} /\ ColumnsAccepted(data)
       THEN /\ transactions' =
                 {IF t.id = id THEN UpdatedRow(t, data) ELSE t : t \in transactions}
            /\ resp' = Ok("updateTransaction", "serve", caller,
                          IF \E t \in transactions : t.id = id
                            THEN <<UpdatedRow(CHOOSE t \in transactions : t.id = id, data)>>
                            ELSE <<>>, id)
       ELSE /\ resp' = Err("updateTransaction", "serve", caller, "db error", id)
            /\ UNCHANGED transactions
  /\ UNCHANGED nextId
  /\ UNCHANGED ServeRest

\* case 'deleteTransaction'
serve_deleteTransaction(caller, id) ==
  /\ transactions' = {t \in transactions : t.id # id}
  /\ resp' = Ok("deleteTransaction", "serve", caller, <<>>, id)
  /\ UNCHANGED nextId
  /\ UNCHANGED ServeRest

\* --------------------------------------------- useTransactions (client)
\* statements of the Supabase client run as auth.uid() = the session user
auth_uid == user

mapDbToTransaction(t) ==
  [id |-> t.id, user_id |-> t.user_id, date |-> newDate(t.date), type |-> t.type,
   clientSupplier |-> t.client_supplier, amount |-> t.amount,
   description |-> IF t.description \in {"null", ""} THEN "" ELSE t.description,
   paymentMethod |-> t.payment_method, createdAt |-> t.created_at]

\* (data || []).map(mapDbToTransaction)
mapRows(a) == [i \in 1..Len(a) |-> mapDbToTransaction(a[i])]

\* POLICY "Authenticated users can view transactions"
SelectPolicy == auth_uid # None /\ can_view(auth_uid)

\* POLICY "Users with edit or insert_income can insert income"
InsertPolicy(row) ==
  /\ auth_uid # None
  /\ \/ row.type = "income" /\ can_insert_income(auth_uid)
     \/ row.type = "expense" /\ can_insert_expense(auth_uid)

\* POLICY "Users with edit permission can update transactions"
UpdatePolicy == auth_uid # None /\ can_edit(auth_uid)

\* POLICY "Users with edit permission can delete transactions"
DeletePolicy == auth_uid # None /\ can_delete(auth_uid)

ClientRest ==
  <<users, profiles, user_roles, user, roles, storedUserId, pageUsers, pc, loc, now>>

\* the rows a select('*').order('date', desc) may return, mapped
FetchedLists ==
  {mapRows(a) :
     a \in OrderByDate(IF SelectPolicy THEN transactions ELSE {})}

fetchTransactions ==
  /\ user # None
  /\ \E l \in FetchedLists :
        /\ txList' = l
        /\ resp' = Ok("fetchTransactions", "client", user, <<>>, None)
  /\ UNCHANGED <<transactions, nextId>>
  /\ UNCHANGED selectedType
  /\ UNCHANGED ClientRest

\* the row addTransaction sends
AddRow(transaction) ==
  [user_id |-> user, date |-> toISODate(transaction.date), type |-> transaction.type,
   client_supplier |-> transaction.clientSupplier, amount |-> transaction.amount,
   description |-> transaction.description, payment_method |-> transaction.paymentMethod]

addTransaction(transaction) ==
  /\ user # None
  /\ IdsLeft
  /\ IF RowAccepted(AddRow(transaction)) /\ InsertPolicy(AddRow(transaction))
          /\ SelectPolicy
       THEN /\ transactions' = transactions \cup {NewRow(nextId, AddRow(transaction))}
            /\ nextId' = nextId + 1
            /\ txList' = <<mapDbToTransaction(NewRow(nextId, AddRow(transaction)))>> \o txList
            /\ resp' = Ok("addTransaction", "client", user, <<NewRow(nextId, AddRow(transaction))>>, nextId)
       ELSE /\ resp' = Err("addTransaction", "client", user,
                           IF RowAccepted(AddRow(transaction))
                             THEN "new row violates row-level security policy"
                             ELSE "db error", None)
            /\ UNCHANGED <<transactions, nextId, txList>>
  /\ UNCHANGED ClientRest

\* the updates object built from the supplied fields of transaction
Updates(transaction) ==
  LET has(f) == f \in DOMAIN transaction
      truthy(f) == has(f) /\ transaction[f] # ""
      keys == {k \in TxFields :
                 \/ k = "date" /\ has("date")
                 \/ k = "type" /\ truthy("type")
                 \/ k = "client_supplier" /\ truthy("clientSupplier")
                 \/ k = "amount" /\ has("amount")
                 \/ k = "description" /\ has("description")
                 \/ k = "payment_method" /\ truthy("paymentMethod")}
  IN [k \in keys |->
        CASE k = "date" -> toISODate(transaction.date)
          [] k = "type" -> transaction.type
          [] k = "client_supplier" -> transaction.clientSupplier
          [] k = "amount" -> transaction.amount
          [] k = "description" -> transaction.description
          [] k = "payment_method" -> transaction.paymentMethod]

updateTransaction(id, transaction) ==
  /\ IF ColumnsAccepted(Updates(transaction))
       THEN /\ transactions' =
                 {IF t.id = id /\ UpdatePolicy /\ SelectPolicy /\ DOMAIN Updates(transaction) # {}
                    THEN UpdatedRow(t, Updates(transaction)) ELSE t : t \in transactions}
            /\ resp' = Ok("updateTransaction", "client", user, <<>>, id)
            \* await fetchTransactions(), on the rows as updated
            /\ IF user # None
                 THEN \E a \in OrderByDate(IF SelectPolicy THEN transactions' ELSE {}) :
                         txList' = mapRows(a)
                 ELSE UNCHANGED txList
       ELSE /\ resp' = Err("updateTransaction", "client", user, "db error", id)
            /\ UNCHANGED <<transactions, txList>>
  /\ UNCHANGED nextId
  /\ UNCHANGED selectedType
  /\ UNCHANGED ClientRest

deleteTransaction(id) ==
  /\ transactions' = {t \in transactions : ~(t.id = id /\ DeletePolicy /\ SelectPolicy)}
  /\ txList' = SelectSeq(txList, LAMBDA t : t.id # id)
  /\ resp' = Ok("deleteTransaction", "client", user, <<>>, id)
  /\ UNCHANGED nextId
  /\ UNCHANGED selectedType
  /\ UNCHANGED ClientRest

\* ---------------------------------------------------------- registration
\* one email per request, so that every registration can be for a new one
Emails == {EmailOf(i) : i \in Procs}

SessionVars == <<user, roles, storedUserId, txList, pageUsers, selectedType>>

\* serve, case 'signup': the role given for the COUNT(*) of users read
SignupRole_anyCount(count) == IF count >= 1 THEN "admin" ELSE "view_only"

SignupRole(count) == IF count = 1 THEN "admin" ELSE "view_only"

\* SELECT id FROM users WHERE email = ...
signup_check(p, email) ==
  /\ pc[p] = "idle"
  /\ IF \E u \in users : u.email = email
       THEN /\ resp' = Err("signup", "serve", None, "User already registered", None)
            /\ pc' = [pc EXCEPT ![p] = "done"]
            /\ UNCHANGED loc
       ELSE /\ pc' = [pc EXCEPT ![p] = "signup_insert"]
            /\ loc' = [loc EXCEPT ![p].email = email]
            /\ UNCHANGED resp
  /\ UNCHANGED <<users, profiles, user_roles, transactions, nextId, now>>
  /\ UNCHANGED SessionVars

\* the table users is created outside the migration; its logical schema is
\* users(id, email unique, password_hash, full_name, created_at): what the
\* unique constraint accepts
users_email_key(email) == ~\E u \in users : u.email = email

\* INSERT INTO users ... RETURNING id; a constraint violation throws, and
\* the catch block answers with status 500
signup_insert_user(p) ==
  /\ pc[p] = "signup_insert"
  /\ IF users_email_key(loc[p].email)
       THEN /\ users' = users \cup {[id |-> nextId, email |-> loc[p].email, password |-> Password]}
            /\ nextId' = nextId + 1
            /\ loc' = [loc EXCEPT ![p].id = nextId]
            /\ pc' = [pc EXCEPT ![p] = "signup_count"]
            /\ UNCHANGED resp
       ELSE /\ resp' = Err("signup", "serve", None, "db error", None)
            /\ pc' = [pc EXCEPT ![p] = "done"]
            /\ UNCHANGED <<users, nextId, loc>>
  /\ UNCHANGED <<profiles, user_roles, transactions, now>>
  /\ UNCHANGED SessionVars

\* SELECT COUNT(*) as count FROM users
signup_count(p) ==
  /\ pc[p] = "signup_count"
  /\ loc' = [loc EXCEPT ![p].count = Cardinality(users)]
  /\ pc' = [pc EXCEPT ![p] = "signup_role"]
  /\ UNCHANGED <<users, profiles, user_roles, transactions, nextId, now, resp>>
  /\ UNCHANGED SessionVars

\* a signup that stores the role row of the first user only
signup_insert_role_firstOnly(p) ==
  /\ pc[p] = "signup_role"
  /\ user_roles' = user_roles \cup
        {[id |-> nextId, user_id |-> loc[p].id, role |-> "admin"] : x \in {1} \cap {loc[p].count}}
  /\ nextId' = nextId + 1
  /\ resp' = Ok("signup", "serve", loc[p].id, <<>>, loc[p].id)
  /\ pc' = [pc EXCEPT ![p] = "done"]
  /\ UNCHANGED <<users, profiles, transactions, now, loc>>
  /\ UNCHANGED SessionVars

\* INSERT INTO user_roles (user_id, role), and the response
signup_insert_role(p) ==
  /\ pc[p] = "signup_role"
  /\ user_roles' = user_roles \cup
        {[id |-> nextId, user_id |-> loc[p].id, role |-> SignupRole(loc[p].count)]}
  /\ nextId' = nextId + 1
  /\ resp' = Ok("signup", "serve", loc[p].id, <<>>, loc[p].id)
  /\ pc' = [pc EXCEPT ![p] = "done"]
  /\ UNCHANGED <<users, profiles, transactions, now, loc>>
  /\ UNCHANGED SessionVars

\* handle_new_user: the role given for the COUNT(*) of user_roles read
NewUserRole(count) == IF count = 0 THEN "admin" ELSE "view_only"

\* supabase.auth.signUp: the transaction that inserts the auth user runs the
\* trigger handle_new_user; its COUNT(*) reads the committed user_roles rows
handle_new_user_count(p, email) ==
  /\ pc[p] = "idle"
  /\ ~\E u \in users : u.email = email
  /\ ~\E q \in Procs : pc[q] = "new_user_commit" /\ loc[q].email = email
  /\ loc' = [loc EXCEPT ![p].email = email, ![p].id = nextId,
                        ![p].count = Cardinality(user_roles)]
  /\ nextId' = nextId + 1
  /\ pc' = [pc EXCEPT ![p] = "new_user_commit"]
  /\ UNCHANGED <<users, profiles, user_roles, transactions, now, resp>>
  /\ UNCHANGED SessionVars

\* the commit of that transaction: auth user, profile and role row appear
handle_new_user_commit(p) ==
  /\ pc[p] = "new_user_commit"
  /\ users' = users \cup {[id |-> loc[p].id, email |-> loc[p].email, password |-> Password]}
  /\ profiles' = profiles \cup {[id |-> loc[p].id, email |-> loc[p].email]}
  /\ user_roles' = user_roles \cup
        {[id |-> nextId, user_id |-> loc[p].id, role |-> NewUserRole(loc[p].count)]}
  /\ nextId' = nextId + 1
  /\ resp' = Ok("signUp", "client", loc[p].id, <<>>, loc[p].id)
  /\ pc' = [pc EXCEPT ![p] = "done"]
  /\ UNCHANGED <<transactions, now, loc>>
  /\ UNCHANGED SessionVars

\* ------------------------------------------------------------- directory
\* serve, case 'updateUserRole': DELETE FROM user_roles WHERE user_id = ...
updateUserRole_delete(p, caller, userId, role) ==
  /\ pc[p] = "idle"
  /\ user_roles' = {r \in user_roles : r.user_id # userId}
  /\ loc' = [loc EXCEPT ![p].caller = caller, ![p].id = userId, ![p].role = role,
                        ![p].before = RolesOf(userId)]
  /\ pc' = [pc EXCEPT ![p] = "role_insert"]
  /\ UNCHANGED <<users, profiles, transactions, nextId, now, resp>>
  /\ UNCHANGED SessionVars

\* INSERT INTO user_roles (user_id, role), and the response
updateUserRole_insert(p) ==
  /\ pc[p] = "role_insert"
  /\ IF /\ loc[p].role \in AppRole
        /\ \E u \in users : u.id = loc[p].id
        /\ ~\E r \in user_roles : r.user_id = loc[p].id /\ r.role = loc[p].role
       THEN /\ user_roles' = user_roles \cup
                 {[id |-> nextId, user_id |-> loc[p].id, role |-> loc[p].role]}
            /\ nextId' = nextId + 1
            /\ resp' = Ok("updateUserRole", "serve", loc[p].caller, <<>>, loc[p].id)
       ELSE /\ resp' = Err("updateUserRole", "serve", loc[p].caller, "db error", loc[p].id)
            /\ UNCHANGED <<user_roles, nextId>>
  /\ pc' = [pc EXCEPT ![p] = "done"]
  /\ UNCHANGED <<users, profiles, transactions, now, loc>>
  /\ UNCHANGED SessionVars

\* POLICY "Admins can manage all roles" / "Users can view own roles"
RolesSelectPolicy(r) ==
  auth_uid # None /\ (has_role(auth_uid, "admin") \/ auth_uid = r.user_id)

\* POLICY "Admins can view all profiles" / "Users can view own profile"
ProfilesSelectPolicy(pr) ==
  auth_uid # None /\ (has_role(auth_uid, "admin") \/ auth_uid = pr.id)

\* POLICY "Admins can manage all roles", the only one for UPDATE on user_roles
RolesUpdatePolicy == auth_uid # None /\ has_role(auth_uid, "admin")

\* profiles has row security enabled and no policy for DELETE
ProfilesDeletePolicy == FALSE

PageRest ==
  <<users, transactions, nextId, now, user, roles, storedUserId, txList, selectedType, pc, loc>>

\* the usersWithRoles that fetchUsers may build: roles.find takes the first
\* role row of the user in the order the rows came
UsersWithRoles ==
  LET ps == {pr \in profiles : ProfilesSelectPolicy(pr)}
      rs == {r \in user_roles : RolesSelectPolicy(r)}
      of(i) == {r \in rs : r.user_id = i}
      pick(i) == IF of(i) = {} THEN {[id |-> i, role |-> "view_only", role_id |-> None]}
                 ELSE {[id |-> i, role |-> r.role, role_id |-> r.id] : r \in of(i)}
  IN {S \in SUBSET (UNION {pick(pr.id) : pr \in ps}) :
        \A pr \in ps : Cardinality({x \in S : x.id = pr.id}) = 1}

\* Users page: the effect that runs while isAdmin
fetchUsers ==
  /\ isAdmin(roles)
  /\ \E S \in UsersWithRoles : pageUsers' = S
  /\ resp' = Ok("fetchUsers", "client", user, <<>>, None)
  /\ UNCHANGED <<profiles, user_roles>>
  /\ UNCHANGED PageRest

handleRoleChange(userId, roleId, newRole) ==
  /\ isAdmin(roles)
  /\ userId # user
  /\ \E x \in pageUsers : x.id = userId /\ x.role_id = roleId
  /\ IF \/ roleId = None
        \/ /\ RolesUpdatePolicy
           /\ \E r \in user_roles : r.id = roleId /\ r.role # newRole
                  /\ \E o \in user_roles : o.user_id = r.user_id /\ o.role = newRole
       THEN /\ resp' = Err("handleRoleChange", "client", user, "db error", userId)
            /\ UNCHANGED <<user_roles, pageUsers>>
       ELSE /\ user_roles' =
                 {IF r.id = roleId /\ RolesUpdatePolicy THEN [r EXCEPT !.role = newRole] ELSE r :
                    r \in user_roles}
            /\ pageUsers' =
                 {IF x.id = userId THEN [x EXCEPT !.role = newRole] ELSE x : x \in pageUsers}
            /\ resp' = Ok("handleRoleChange", "client", user, <<>>, userId)
  /\ UNCHANGED profiles
  /\ UNCHANGED PageRest

handleDeleteUser(userId) ==
  /\ isAdmin(roles)
  /\ userId # user
  /\ \E x \in pageUsers : x.id = userId
  /\ profiles' = {pr \in profiles : ~(pr.id = userId /\ ProfilesDeletePolicy)}
  /\ pageUsers' = {x \in pageUsers : x.id # userId}
  /\ resp' = Ok("handleDeleteUser", "client", user, <<>>, userId)
  /\ UNCHANGED user_roles
  /\ UNCHANGED PageRest

\* handleRoleChange when other statements run during its UPDATE: the
\* statement starts, and its snapshot decides has_role(auth.uid(), 'admin')
handleRoleChange_send(p, userId, roleId, newRole) ==
  /\ pc[p] = "idle"
  /\ isAdmin(roles)
  /\ userId # user
  /\ roleId # None
  /\ \E x \in pageUsers : x.id = userId /\ x.role_id = roleId
  /\ loc' = [loc EXCEPT ![p].caller = user, ![p].id = roleId, ![p].role = newRole,
                        ![p].target = userId, ![p].allowed = RolesUpdatePolicy]
  /\ pc' = [pc EXCEPT ![p] = "role_update"]
  /\ UNCHANGED <<users, profiles, user_roles, transactions, nextId, now, resp>>
  /\ UNCHANGED SessionVars

\* the statement writes the row, commits, and the page handles the response
handleRoleChange_update(p) ==
  /\ pc[p] = "role_update"
  /\ IF /\ loc[p].allowed
        /\ \E r \in user_roles : r.id = loc[p].id /\ r.role # loc[p].role
               /\ \E o \in user_roles : o.user_id = r.user_id /\ o.role = loc[p].role
       THEN /\ resp' = Err("handleRoleChange", "client", loc[p].caller, "db error", loc[p].target)
            /\ UNCHANGED <<user_roles, pageUsers>>
       ELSE /\ user_roles' =
                 {IF r.id = loc[p].id /\ loc[p].allowed THEN [r EXCEPT !.role = loc[p].role] ELSE r :
                    r \in user_roles}
            /\ pageUsers' =
                 IF user = loc[p].caller
                   THEN {IF x.id = loc[p].target THEN [x EXCEPT !.role = loc[p].role] ELSE x :
                           x \in pageUsers}
                   ELSE pageUsers
            /\ resp' = Ok("handleRoleChange", "client", loc[p].caller, <<>>, loc[p].target)
  /\ pc' = [pc EXCEPT ![p] = "done"]
  /\ UNCHANGED <<users, profiles, transactions, nextId, now, user, roles, storedUserId,
                 txList, selectedType, loc>>

\* ------------------------------------------------------- initial states
RegisteredUsers == {[id |-> i, email |-> EmailOf(i), password |-> Password] : i \in UserIds}

InitClient ==
  /\ user = None
  /\ roles = <<>>
  /\ storedUserId = None
  /\ txList = <<>>
  /\ pageUsers = {}
  /\ selectedType = "none"

\* before: the target's role set when an updateUserRole request arrived (kept
\* for stating what a failed request must leave in place)
\* target, allowed: the user a role UPDATE of the Users page is about, and what
\* the policy of user_roles gave on the snapshot of that statement
NoLoc ==
  [email |-> None, id |-> None, count |-> 0, caller |-> None, role |-> "none", before |-> {},
   target |-> None, allowed |-> FALSE]

InitIdle ==
  /\ pc = [p \in Procs |-> "idle"]
  /\ loc = [p \in Procs |-> NoLoc]
  /\ resp = NoResp

RegisteredProfiles == {[id |-> i, email |-> EmailOf(i)] : i \in UserIds}

RoleRows(S) == {[id |-> InitRoleId(x[1], x[2]), user_id |-> x[1], role |-> x[2]] : x \in S}

\* user 1 holds any subset of the five roles, every other user at most one
InitRoles ==
  /\ users = RegisteredUsers
  /\ profiles = RegisteredProfiles
  /\ \E R \in SUBSET AppRole, f \in [UserIds \ {1} -> AppRole \cup {"none"}] :
        user_roles = RoleRows(({1} \X R) \cup {<<u, f[u]>> : u \in {v \in UserIds \ {1} : f[v] # "none"}})
  /\ transactions = {}
  /\ nextId = FirstFreeId
  /\ now = 0
  /\ InitClient
  /\ InitIdle

NextRoles ==
  \/ \E e \in {EmailOf(i) : i \in UserIds}, p \in {Password, WrongPassword} : signIn(e, p)
  \/ signOut
  \/ checkSession

SpecRoles == InitRoles /\ [][NextRoles]_vars

\* ------------------------------------------- the ledger under fixed roles
\* every user holds one role or none
InitTx ==
  /\ users = RegisteredUsers
  /\ profiles = RegisteredProfiles
  /\ \E f \in [UserIds -> AppRole \cup {"none"}] :
        user_roles = RoleRows({<<u, f[u]>> : u \in {v \in UserIds : f[v] # "none"}})
  /\ transactions = {}
  /\ nextId = FirstFreeId
  /\ now = 0
  /\ InitClient
  /\ InitIdle

RowOf(u, ty) ==
  [user_id |-> u, date |-> 1, type |-> ty, client_supplier |-> "Acme", amount |-> 50,
   description |-> "x", payment_method |-> "pix"]

FormOf(ty) ==
  [date |-> newDate(1), type |-> ty, clientSupplier |-> "Acme", amount |-> 50,
   description |-> "x", paymentMethod |-> "pix"]

TxIds == FirstFreeId..(FirstFreeId + MaxTx - 1)

\* requests to the edge function, each made by a registered user u
NextServe ==
  \/ \E u \in UserIds : serve_getTransactions(u, u)
  \/ \E u \in UserIds, ty \in TransactionType : serve_insertTransaction(u, RowOf(u, ty))
  \/ \E u \in UserIds, id \in TxIds, ty \in TransactionType :
        serve_updateTransaction(u, id, [type |-> ty])
  \/ \E u \in UserIds, id \in TxIds : serve_deleteTransaction(u, id)

SpecServe == InitTx /\ [][NextServe]_vars

\* one browser session working through the Supabase client
NextClient ==
  \/ \E i \in UserIds : signIn(EmailOf(i), Password)
  \/ signOut
  \/ fetchTransactions
  \/ \E ty \in TransactionType : addTransaction(FormOf(ty)) /\ UNCHANGED selectedType
  \/ \E id \in TxIds, ty \in TransactionType : updateTransaction(id, [type |-> ty])
  \/ \E id \in TxIds : deleteTransaction(id)

SpecClient == InitTx /\ [][NextClient]_vars

\* --------------------------------------------------------- registration
InitReg ==
  /\ users = {}
  /\ profiles = {}
  /\ user_roles = {}
  /\ transactions = {}
  /\ nextId = 1
  /\ now = 0
  /\ InitClient
  /\ InitIdle

RegStep(p) ==
  \/ signup_insert_user(p)
  \/ signup_count(p)
  \/ signup_insert_role(p)
  \/ handle_new_user_commit(p)

\* registrations running concurrently
NextReg ==
  \E p \in Procs :
     \/ \E e \in Emails : signup_check(p, e)
     \/ \E e \in Emails : handle_new_user_count(p, e)
     \/ RegStep(p)

SpecReg == InitReg /\ [][NextReg]_vars

\* registrations through the edge function only, running concurrently
NextSignup ==
  \E p \in Procs :
     \/ \E e \in Emails : signup_check(p, e)
     \/ signup_insert_user(p)
     \/ signup_count(p)
     \/ signup_insert_role(p)

SpecSignup == InitReg /\ [][NextSignup]_vars

\* registrations through the edge function competing for two emails
SharedEmails == {EmailOf(1), EmailOf(2)}

NextSignupShared ==
  \E p \in Procs :
     \/ \E e \in SharedEmails : signup_check(p, e)
     \/ signup_insert_user(p)
     \/ signup_count(p)
     \/ signup_insert_role(p)

SpecSignupShared == InitReg /\ [][NextSignupShared]_vars

Quiescent == \A p \in Procs : pc[p] \in {"idle", "done"}

\* registrations executed one at a time
NextSerial ==
  \E p \in Procs :
     \/ \E e \in Emails : Quiescent /\ signup_check(p, e)
     \/ \E e \in Emails : Quiescent /\ handle_new_user_count(p, e)
     \/ RegStep(p)

SpecSerial == InitReg /\ [][NextSerial]_vars

\* the AuthProvider of one browser: registrations one at a time, logins with
\* the right and with a wrong password, logout, page loads
NextSession ==
  \/ \E p \in Procs, e \in SharedEmails : Quiescent /\ signup_check(p, e)
  \/ \E p \in Procs : signup_insert_user(p)
  \/ \E p \in Procs : signup_count(p)
  \/ \E p \in Procs : signup_insert_role(p)
  \/ \E e \in SharedEmails, pw \in {Password, WrongPassword} : signIn(e, pw)
  \/ signOut
  \/ checkSession

SpecSession == InitReg /\ [][NextSession]_vars

\* ------------------------------------------------------------ directory
\* the directory as registration leaves it: the first user admin, the
\* others view_only
InitDir ==
  /\ users = RegisteredUsers
  /\ profiles = RegisteredProfiles
  /\ user_roles = RoleRows({<<u, IF u = 1 THEN "admin" ELSE "view_only">> : u \in UserIds})
  /\ transactions = {}
  /\ nextId = FirstFreeId
  /\ now = 0
  /\ InitClient
  /\ InitIdle

\* the roles the requests of this specification ask for
DirRoles == {"admin", "view_only"}

\* the requests to the edge function that run concurrently
DirProcs == {p \in Procs : p <= 2}

NextDir ==
  \/ \E i \in UserIds : signIn(EmailOf(i), Password)
  \/ signOut
  \/ fetchUsers
  \/ \E x \in pageUsers, r \in DirRoles : handleRoleChange(x.id, x.role_id, r)
  \/ \E x \in pageUsers : handleDeleteUser(x.id)
  \/ \E p \in DirProcs, c \in UserIds, u \in UserIds, r \in DirRoles :
        updateUserRole_delete(p, c, u, r)
  \/ \E p \in DirProcs : updateUserRole_insert(p)

SpecDir == InitDir /\ [][NextDir]_vars

\* the Users page used from several browsers: the session variables are the
\* browser that acts next, a statement already sent is carried out whatever
\* that browser does afterwards
NextAdmins ==
  \/ \E i \in UserIds : signIn(EmailOf(i), Password)
  \/ signOut
  \/ fetchUsers
  \/ \E x \in pageUsers, r \in DirRoles : handleRoleChange(x.id, x.role_id, r)
  \/ \E x \in pageUsers : handleDeleteUser(x.id)
  \/ \E p \in DirProcs, x \in pageUsers, r \in DirRoles :
        handleRoleChange_send(p, x.id, x.role_id, r)
  \/ \E p \in DirProcs : handleRoleChange_update(p)

SpecAdmins == InitDir /\ [][NextAdmins]_vars

\* TransactionList: the Excluir item is rendered, for the transactions of
\* the list, only while canDelete; confirming it calls onDelete
onDelete(id) ==
  /\ canDelete(roles)
  /\ \E i \in 1..Len(txList) : txList[i].id = id
  /\ deleteTransaction(id)

\* the ledger page of one browser while roles are changed through the edge
\* function
NextLedgerRoles ==
  \/ \E i \in UserIds : signIn(EmailOf(i), Password)
  \/ fetchTransactions
  \/ \E ty \in TransactionType : addTransaction(FormOf(ty)) /\ UNCHANGED selectedType
  \/ \E id \in TxIds : onDelete(id)
  \/ \E c \in UserIds, u \in UserIds, r \in DirRoles : updateUserRole_delete(1, c, u, r)
  \/ updateUserRole_insert(1)

SpecLedgerRoles == InitDir /\ [][NextLedgerRoles]_vars

\* TransactionForm: the two type buttons, rendered only while canSelectBoth
setValue_type(ty) ==
  /\ selectedType # "none"
  /\ canSelectBoth(roles)
  /\ selectedType' = ty
  /\ UNCHANGED <<users, profiles, user_roles, transactions, nextId, now, user, roles,
                 storedUserId, txList, pageUsers, pc, loc, resp>>

\* handleSubmit(handleFormSubmit) with the validated form content data:
\* onSubmit is the hook's addTransaction; success resets the form
handleFormSubmit(data) ==
  /\ selectedType # "none"
  /\ data.type = selectedType
  /\ addTransaction([date |-> data.date, type |-> data.type,
                     clientSupplier |-> data.clientSupplier, amount |-> data.amount,
                     description |-> data.description, paymentMethod |-> data.paymentMethod])
  /\ selectedType' = IF resp'.error = "" THEN defaultType(roles) ELSE selectedType

\* the ledger page of one browser, for users of every role
NextForm ==
  \/ \E i \in UserIds : signIn(EmailOf(i), Password)
  \/ signOut
  \/ checkSession
  \/ \E ty \in TransactionType : setValue_type(ty)
  \/ \E ty \in TransactionType : handleFormSubmit(FormOf(ty))

SpecForm == InitTx /\ [][NextForm]_vars

\* setRole requests to the edge function, also for a role that is not one of
\* the five
RequestedRoles == DirRoles \cup {"owner"}

NextSetRole ==
  \/ \E p \in DirProcs, c \in UserIds, u \in UserIds, r \in RequestedRoles :
        updateUserRole_delete(p, c, u, r)
  \/ \E p \in DirProcs : updateUserRole_insert(p)

SpecSetRole == InitDir /\ [][NextSetRole]_vars

\* ------------------------------------------- the ledger, request payloads
\* NOW() advances between statements
tick ==
  /\ now < MaxNow
  /\ now' = now + 1
  /\ UNCHANGED <<users, profiles, user_roles, transactions, nextId, user, roles,
                 storedUserId, txList, pageUsers, selectedType, pc, loc, resp>>

\* amounts a request body may carry
Amounts == {-5, 0, 50}

\* the data of an insertTransaction request
RowWith(u, ty, amt, day) ==
  [user_id |-> u, date |-> day, type |-> ty, client_supplier |-> "Acme", amount |-> amt,
   description |-> "x", payment_method |-> "pix"]

\* the data of an updateTransaction request: the supplied fields, among them
\* none at all, falsy values and an amount <= 0
Changes ==
  {<<>>, [amount |-> -5], [amount |-> 0], [type |-> "expense"], [client_supplier |-> ""]}

NextServePayload ==
  \/ tick
  \/ \E u \in UserIds : serve_getTransactions(u, u)
  \/ \E u \in UserIds, a \in Amounts : serve_insertTransaction(u, RowWith(u, "income", a, 1))
  \/ \E u \in UserIds, id \in TxIds, d \in Changes : serve_updateTransaction(u, id, d)
  \/ \E u \in UserIds, id \in TxIds : serve_deleteTransaction(u, id)

SpecServePayload == InitDir /\ [][NextServePayload]_vars

\* the days a form may carry
Days == {1, 2}

\* what the form hands to addTransaction
FormWith(ty, day) ==
  [date |-> newDate(day), type |-> ty, clientSupplier |-> "Acme", amount |-> 50,
   description |-> "x", paymentMethod |-> "pix"]

\* the partial transaction handed to the hook's updateTransaction: the
\* supplied fields, among them none at all and falsy values
FormChanges ==
  {<<>>, [clientSupplier |-> ""], [amount |-> 0], [description |-> ""], [type |-> "expense"]}

\* one browser session working through the Supabase client
NextClientPayload ==
  \/ tick
  \/ \E i \in UserIds : signIn(EmailOf(i), Password)
  \/ signOut
  \/ fetchTransactions
  \/ \E day \in Days : addTransaction(FormWith("income", day)) /\ UNCHANGED selectedType
  \/ \E id \in TxIds, tr \in FormChanges : updateTransaction(id, tr)
  \/ \E id \in TxIds : deleteTransaction(id)

SpecClientPayload == InitDir /\ [][NextClientPayload]_vars

\* inserts and lists through the edge function, nothing else touching the rows
NextServeRoundTrip ==
  \/ \E u \in UserIds : serve_getTransactions(u, u)
  \/ \E u \in UserIds, ty \in TransactionType, day \in Days :
        serve_insertTransaction(u, RowWith(u, ty, 50, day))

SpecServeRoundTrip == InitTx /\ [][NextServeRoundTrip]_vars

\* ------------------------------------ useTransactions: filter and summary
\* texts are sequences of characters here, so that substrings and case exist
toLowerCase(s) ==
  [i \in 1..Len(s) |-> CASE s[i] = "A" -> "a" [] s[i] = "B" -> "b" [] OTHER -> s[i]]

\* String.prototype.includes
strIncludes(s, sub) ==
  \E i \in 0..(Len(s) - Len(sub)) : SubSeq(s, i + 1, i + Len(sub)) = sub

\* search matching that compares the texts as they are
matchesSearch_caseSensitive(t, search) ==
  \/ strIncludes(t.clientSupplier, search)
  \/ strIncludes(t.description, search)

\* the return of the `if (filters.search)` branch
matchesSearch(t, search) ==
  \/ strIncludes(toLowerCase(t.clientSupplier), toLowerCase(search))
  \/ strIncludes(toLowerCase(t.description), toLowerCase(search))

\* the callback of transactions.filter; an absent date is None, an absent
\* type "undefined", an absent or empty search <<>>
filterCallback(t, filters) ==
  IF filters.startDate # None /\ t.date < filters.startDate THEN FALSE
  ELSE IF filters.endDate # None /\ t.date > filters.endDate THEN FALSE
  ELSE IF filters.type # "undefined" /\ filters.type # "all" /\ t.type # filters.type THEN FALSE
  ELSE IF filters.search # <<>> THEN matchesSearch(t, filters.search)
  ELSE TRUE

getFilteredTransactions(filters) ==
  /\ resp' = Ok("getFilteredTransactions", "client", user,
                SelectSeq(txList, LAMBDA t : filterCallback(t, filters)), None)
  /\ UNCHANGED <<users, profiles, user_roles, transactions, nextId, now, user, roles,
                 storedUserId, txList, pageUsers, selectedType, pc, loc>>

\* the transactions a held list is made of
HeldTransactions ==
  [date : {newDate(1), newDate(2)}, type : TransactionType,
   clientSupplier : {<<"A", "b">>, <<"c">>}, description : {<<>>, <<"B", "a">>},
   amount : {50}]

\* every list of at most n elements of S
RECURSIVE ListsOf(_, _)
ListsOf(S, n) ==
  IF n = 0 THEN {<<>>}
  ELSE ListsOf(S, n - 1) \cup {Append(l, x) : l \in {k \in ListsOf(S, n - 1) : Len(k) = n - 1}, x \in S}

Filters ==
  [startDate : {None, newDate(2)}, endDate : {None, newDate(1)},
   type : {"undefined", "all", "income"},
   search : {<<>>, <<"a">>, <<"A", "B">>}]

InitFilter ==
  /\ users = RegisteredUsers
  /\ profiles = RegisteredProfiles
  /\ user_roles = RoleRows({<<u, IF u = 1 THEN "admin" ELSE "view_only">> : u \in UserIds})
  /\ transactions = {}
  /\ nextId = FirstFreeId
  /\ now = 0
  /\ user = 1
  /\ roles = <<"admin">>
  /\ storedUserId = 1
  /\ txList \in ListsOf(HeldTransactions, MaxLen)
  /\ pageUsers = {}
  /\ selectedType = renderedType(roles)
  /\ InitIdle

NextFilter == \E f \in Filters : getFilteredTransactions(f)

SpecFilter == InitFilter /\ [][NextFilter]_vars

\* a reduce that keeps the last amount instead of adding it
RECURSIVE reduceSum_last(_)
reduceSum_last(l) ==
  IF l = <<>> THEN 0 ELSE l[Len(l)].amount

\* list.reduce((sum, t) => sum + t.amount, 0); amounts are integers (cents)
RECURSIVE reduceSum(_)
reduceSum(l) ==
  IF l = <<>> THEN 0 ELSE reduceSum(SubSeq(l, 1, Len(l) - 1)) + l[Len(l)].amount

\* a summary whose balance adds the expense
summaryOf_plus(filteredTransactions) ==
  LET income == reduceSum(SelectSeq(filteredTransactions, LAMBDA t : t.type = "income"))
      expense == reduceSum(SelectSeq(filteredTransactions, LAMBDA t : t.type = "expense"))
  IN [income |-> income, expense |-> expense, balance |-> income + expense]

\* the object getSummary returns
summaryOf(filteredTransactions) ==
  LET income == reduceSum(SelectSeq(filteredTransactions, LAMBDA t : t.type = "income"))
      expense == reduceSum(SelectSeq(filteredTransactions, LAMBDA t : t.type = "expense"))
  IN [income |-> income, expense |-> expense, balance |-> income - expense]

getSummary(filteredTransactions) ==
  /\ resp' = Ok("getSummary", "client", user, <<summaryOf(filteredTransactions)>>, None)
  /\ UNCHANGED <<users, profiles, user_roles, transactions, nextId, now, user, roles,
                 storedUserId, txList, pageUsers, selectedType, pc, loc>>

\* the transactions a summarised list is made of
SummedTransactions ==
  [date : {newDate(1)}, type : TransactionType, clientSupplier : {<<"c">>},
   description : {<<>>}, amount : {1, 2, 5, 50}]

InitSummary ==
  /\ users = RegisteredUsers
  /\ profiles = RegisteredProfiles
  /\ user_roles = RoleRows({<<u, IF u = 1 THEN "admin" ELSE "view_only">> : u \in UserIds})
  /\ transactions = {}
  /\ nextId = FirstFreeId
  /\ now = 0
  /\ user = 1
  /\ roles = <<"admin">>
  /\ storedUserId = 1
  /\ txList \in ListsOf(SummedTransactions, MaxLen)
  /\ pageUsers = {}
  /\ selectedType = renderedType(roles)
  /\ InitIdle

NextSummary == getSummary(txList)

SpecSummary == InitSummary /\ [][NextSummary]_vars

\* ------------------------------------------------------------- claims
\* C1: for every subset R of the five roles, each application-layer
\* predicate computed from a roles array holding exactly R returns the same
\* boolean as the store-layer SQL function evaluated on a user whose
\* user_roles rows are exactly R.
C1_LayersAgree ==
  \A u \in UserIds :
     Range(roles) = RolesOf(u) =>
        /\ canView(roles) = can_view(u)
        /\ canEdit(roles) = can_edit(u)
        /\ canInsertExpense(roles) = can_insert_expense(u)
        /\ canInsertIncome(roles) = can_insert_income(u)
        /\ canDelete(roles) = can_delete(u)
        /\ isAdmin(roles) = has_role(u, "admin")

C1_Witness ==
  /\ user # None
  /\ Range(roles) = RolesOf(user)
  /\ Range(roles) = {"edit", "view_only"}
  /\ canInsertIncome(roles) /\ can_insert_income(user)
  /\ ~isAdmin(roles) /\ ~has_role(user, "admin")

\* C2: for every role set R, canEdit(R) implies canDelete(R), and canEdit(R)
\* implies both canInsertExpense(R) and canInsertIncome(R); in both layers.
C2_EditImpliesLesser ==
  /\ canEdit(roles) =>
        canDelete(roles) /\ canInsertExpense(roles) /\ canInsertIncome(roles)
  /\ \A u \in UserIds :
        can_edit(u) => can_delete(u) /\ can_insert_expense(u) /\ can_insert_income(u)

C2_Witness ==
  /\ user # None
  /\ canEdit(roles) /\ ~isAdmin(roles)
  /\ canDelete(roles) /\ canInsertExpense(roles) /\ canInsertIncome(roles)
  /\ can_edit(user) /\ can_delete(user)

\* the insert right the store-layer functions give user u for a row of type ty
InsertAllowed(u, ty) ==
  \/ ty = "income" /\ can_insert_income(u)
  \/ ty = "expense" /\ can_insert_expense(u)

\* C3: an insertTransaction request adds a row to the transactions store
\* only if the acting user's role set at that moment satisfies
\* canInsertIncome for an income row, canInsertExpense for an expense row.
C3_InsertNeedsRight ==
  [][resp'.op \in {"insertTransaction", "addTransaction"} =>
        \A t \in transactions' \ transactions : InsertAllowed(resp'.caller, t.type)]_vars

\* C4: an updateTransaction request changes a stored transaction only if the
\* acting user's role set satisfies canEdit; for any other caller every
\* stored transaction is unchanged.
C4_UpdateNeedsEdit ==
  [][(resp'.op = "updateTransaction" /\ ~can_edit(resp'.caller)) =>
        transactions' = transactions]_vars

\* C5: a deleteTransaction request removes a stored transaction only if the
\* acting user's role set satisfies canDelete; for any other caller the set
\* of stored transactions is unchanged.
C5_DeleteNeedsRight ==
  [][(resp'.op = "deleteTransaction" /\ ~can_delete(resp'.caller)) =>
        transactions' = transactions]_vars

\* C6: after registration a user's role assignment changes only through a
\* Directory operation whose acting user holds admin at the time of the
\* operation; issued by a non-admin caller it leaves user_roles unchanged.
C6_RoleChangeNeedsAdmin ==
  [][user_roles' # user_roles =>
        \/ \E p \in Procs : /\ pc[p] = "idle" /\ pc'[p] = "role_insert"
                            /\ has_role(loc'[p].caller, "admin")
        \/ \E p \in Procs : pc[p] = "role_insert" /\ pc'[p] = "done"
        \/ pc' = pc /\ user # None /\ has_role(user, "admin")]_vars

\* the user registered first
FirstUserId == CHOOSE i \in {u.id : u \in users} : \A u \in users : i <= u.id

C8_AtMostOneAdmin ==
  Cardinality({r \in user_roles : r.role = "admin"}) <= 1

\* C9: when two or more registrations run concurrently against an empty
\* directory and all complete successfully, at least one of the registered
\* users receives admin.
C9_AtLeastOneAdmin ==
  (/\ \A p \in Procs : pc[p] = "done"
   /\ Cardinality(users) = NumProcs
   /\ Cardinality({u.email : u \in users}) = NumProcs) =>
     \E r \in user_roles : r.role = "admin"

\* C10: for every user V whose role set is non-empty and every stored
\* transaction T, an unfiltered list request by V returns T, whoever owns T.
C10_ListIsShared ==
  (resp.op = "getTransactions" /\ RolesOf(resp.caller) # {}) =>
     \A t \in transactions : \E i \in 1..Len(resp.rows) : resp.rows[i].id = t.id

\* C11: a list request by a user whose role set is empty (canView false)
\* yields an error outcome, distinguishable from a successful list of zero
\* transactions; it never returns a success result.
C11_UnauthorizedListFails ==
  (/\ resp.op \in {"getTransactions", "fetchTransactions"}
   /\ resp.caller # None
   /\ RolesOf(resp.caller) = {}) => resp.error # ""

\* C12: in every reachable state, after any sequence of insert and update
\* operations with arbitrary request payloads, every stored transaction has
\* amount > 0.
C12_AmountPositive == \A t \in transactions : t.amount > 0

\* C13: an update of an existing transaction that supplies amount <= 0 fails
\* with an error outcome and leaves that transaction, and the rest of the
\* store, unchanged.
C13_UpdateRejectsNonPositive ==
  [][\A u \in UserIds, id \in TxIds, d \in Changes :
        (/\ serve_updateTransaction(u, id, d)
         /\ \E t \in transactions : t.id = id /\ t.amount > 0
         /\ "amount" \in DOMAIN d /\ d.amount <= 0)
           => resp'.error # "" /\ transactions' = transactions]_vars

\* C14: a delete request for an id that was never stored, or that was already
\* deleted (the second of two deletes of the same id), reports an error
\* (NotFound) rather than success.
C14_DeleteMissingIsNotFound ==
  [][\A u \in UserIds, id \in TxIds :
        (serve_deleteTransaction(u, id) /\ ~\E t \in transactions : t.id = id)
           => resp'.error # ""]_vars

\* C15: in every quiescent state (no registration or setRole request in
\* progress), after any interleaving of requests, two concurrent setRole
\* requests on the same user included, every registered user has exactly one
\* role assignment row.
C15_OneRolePerUser ==
  Quiescent => \A u \in users : Cardinality({r \in user_roles : r.user_id = u.id}) = 1

\* C16: a setRole request that fails (the new role is not one of the five
\* roles, or the insert step errors) leaves the target user's role
\* assignments exactly as they were before the request.
C16_FailedSetRoleKeepsRoles ==
  [][\A p \in Procs :
        (updateUserRole_insert(p) /\ resp'.error # "")
           => {r.role : r \in {x \in user_roles' : x.user_id = loc[p].id}} = loc[p].before]_vars

\* C17: in every reachable state no two users share an email: a registration
\* whose email is already taken fails with AlreadyRegistered and creates no
\* user and no role row, also when two registrations for the same email run
\* concurrently with their existence check and insert statements interleaved.
C17_UniqueEmail ==
  [][/\ \A u1, u2 \in users' : u1.email = u2.email => u1.id = u2.id
     /\ \A p \in Procs :
          (\/ \E e \in Emails : signup_check(p, e) /\ ~users_email_key(e)
           \/ signup_insert_user(p) /\ ~users_email_key(loc[p].email))
             => /\ resp'.error = "User already registered"
                /\ users' = users
                /\ user_roles' = user_roles]_vars

ChangesOf(tr) ==
  LET cols == {k \in TxFields :
                 \/ k = "date" /\ "date" \in DOMAIN tr
                 \/ k = "type" /\ "type" \in DOMAIN tr
                 \/ k = "client_supplier" /\ "clientSupplier" \in DOMAIN tr
                 \/ k = "amount" /\ "amount" \in DOMAIN tr
                 \/ k = "description" /\ "description" \in DOMAIN tr
                 \/ k = "payment_method" /\ "paymentMethod" \in DOMAIN tr}
  IN [k \in cols |->
        CASE k = "date" -> toISODate(tr.date)
          [] k = "type" -> tr.type
          [] k = "client_supplier" -> tr.clientSupplier
          [] k = "amount" -> tr.amount
          [] k = "description" -> tr.description
          [] k = "payment_method" -> tr.paymentMethod]

\* C19: a successful update(id, changes) sets exactly the fields present in
\* changes on the transaction with that id and refreshes updated_at; its id,
\* user_id, created_at and every field absent from changes keep their values,
\* and every other stored transaction is unchanged; for every subset of
\* supplied fields, the empty subset and falsy supplied values included.
C19_PartialUpdateFrame ==
  [][\A id \in TxIds, tr \in FormChanges :
        (/\ updateTransaction(id, tr)
         /\ resp'.error = ""
         /\ user # None /\ can_edit(user)
         /\ \E t \in transactions : t.id = id)
           => transactions' =
                 {IF t.id = id THEN UpdatedRow(t, ChangesOf(tr)) ELSE t : t \in transactions}]_vars

\* C20: the sequence of transactions presented by list is ordered by date
\* descending with ties broken by created_at descending, and this still
\* holds for the client's transaction list after any sequence of fetch,
\* addTransaction and deleteTransaction operations.
C20_ListOrdered ==
  /\ \A i, j \in 1..Len(txList) :
        i < j => \/ txList[i].date > txList[j].date
                 \/ /\ txList[i].date = txList[j].date
                    /\ txList[i].createdAt >= txList[j].createdAt
  /\ resp.op = "getTransactions" =>
        \A i, j \in 1..Len(resp.rows) :
           i < j => ~DateDescCreatedDesc(resp.rows[j], resp.rows[i])

\* C21: after a successful insert of a candidate by a permitted user, a
\* subsequent unfiltered list by any user with view rights contains exactly
\* one transaction with the server-assigned id of that insert, and its date,
\* type, client_supplier, amount, description and payment_method equal the
\* candidate's values.
C21_InsertListRoundTrip ==
  [][/\ \A u \in UserIds, ty \in TransactionType, day \in Days :
          (/\ serve_insertTransaction(u, RowWith(u, ty, 50, day))
           /\ InsertAllowed(u, ty)
           /\ resp'.error = "")
             => \E t \in transactions' \ transactions :
                   /\ t.id = resp'.id
                   /\ \A f \in TxFields : t[f] = RowWith(u, ty, 50, day)[f]
     /\ \A v \in UserIds :
          (serve_getTransactions(v, v) /\ can_view(v))
             => \A t \in {x \in transactions : InsertAllowed(x.user_id, x.type)} :
                   /\ Cardinality({i \in 1..Len(resp'.rows) : resp'.rows[i].id = t.id}) = 1
                   /\ \A i \in 1..Len(resp'.rows) :
                         resp'.rows[i].id = t.id =>
                            \A f \in TxFields : resp'.rows[i][f] = t[f]]_vars

\* C22: getFilteredTransactions(filters) returns exactly those held
\* transactions t, in their original relative order, for which: startDate is
\* absent or t.date >= startDate; endDate is absent or t.date <= endDate;
\* type is absent, 'all' or equal to t.type; search is empty or the
\* lower-cased search is a substring of the lower-cased clientSupplier or of
\* the lower-cased description.
C22_FilterExact ==
  [][\A f \in Filters :
        getFilteredTransactions(f) =>
           resp'.rows =
              SelectSeq(txList,
                 LAMBDA t :
                    /\ f.startDate = None \/ t.date >= f.startDate
                    /\ f.endDate = None \/ t.date <= f.endDate
                    /\ f.type \in {"undefined", "all"} \/ f.type = t.type
                    /\ \/ f.search = <<>>
                       \/ strIncludes(toLowerCase(t.clientSupplier), toLowerCase(f.search))
                       \/ strIncludes(toLowerCase(t.description), toLowerCase(f.search)))]_vars

C22_Witness ==
  /\ resp.op = "getFilteredTransactions"
  /\ Len(txList) = 2
  /\ Len(resp.rows) = 1
  /\ resp.rows[1] = txList[2]
  /\ resp.rows[1].clientSupplier = <<"c">>
  /\ resp.rows[1].description = <<"B", "a">>
  /\ txList[1].type = txList[2].type /\ txList[1].date = txList[2].date

\* the sum of amount over the transactions of type ty in list l
RECURSIVE SumOfType(_, _)
SumOfType(l, ty) ==
  IF l = <<>> THEN 0
  ELSE (IF Head(l).type = ty THEN Head(l).amount ELSE 0) + SumOfType(Tail(l), ty)

\* C23: for every finite sequence of transactions, getSummary returns income
\* equal to the sum of amount over transactions of type income, expense
\* equal to the sum over type expense, and balance equal to income minus
\* expense; for the empty sequence all three are 0.
C23_SummaryTotals ==
  [][getSummary(txList) =>
        /\ resp'.rows[1].income = SumOfType(txList, "income")
        /\ resp'.rows[1].expense = SumOfType(txList, "expense")
        /\ resp'.rows[1].balance = SumOfType(txList, "income") - SumOfType(txList, "expense")
        /\ txList = <<>> => resp'.rows[1] = [income |-> 0, expense |-> 0, balance |-> 0]]_vars

C23_Witness ==
  /\ resp.op = "getSummary"
  /\ Len(txList) = 2
  /\ resp.rows[1].income = 5
  /\ resp.rows[1].expense = 50
  /\ resp.rows[1].balance = -45

\* every reordering of list l
PermutationsOf(l) ==
  {[i \in 1..Len(l) |-> l[a[i]]] : a \in ArraysOf(1..Len(l))}

\* C24: getSummary returns the same {income, expense, balance} for every
\* permutation of the same multiset of transactions (amounts are integer
\* cents).
C24_SummaryOrderFree ==
  [][getSummary(txList) =>
        \A p \in PermutationsOf(txList) : summaryOf(p) = resp'.rows[1]]_vars

C24_Witness ==
  /\ resp.op = "getSummary"
  /\ Len(txList) = 2
  /\ txList[1].type = txList[2].type
  /\ txList[1].amount # txList[2].amount
  /\ resp.rows[1].income = txList[1].amount + txList[2].amount

\* C25: after the removal of user u by an admin reports success, no role
\* assignment row of u remains in user_roles and the profile row of u no
\* longer exists.
C25_RemoveUserClearsRows ==
  [][\A u \in UserIds :
        (handleDeleteUser(u) /\ resp'.error = "")
           => /\ ~\E r \in user_roles' : r.user_id = u
              /\ ~\E pr \in profiles' : pr.id = u]_vars

\* C26: once the first user is registered, the directory holds at least one
\* user with role admin in every later state, for any interleaving of role
\* changes and removals made through the Users page by users who are admin
\* in their session, two admins changing each other's role concurrently
\* included.
C26_AdminRemains ==
  \E r \in user_roles : r.role = "admin"

\* C27: while a user is logged in, whatever the application layer permits
\* from the roles held in the session (canInsertExpense, canInsertIncome,
\* canDelete, isAdmin) the store-layer predicate permits on that user's
\* current user_roles rows, also after the user's role was changed since the
\* session loaded its roles.
C27_SessionWithinStore ==
  user # None =>
     /\ canInsertExpense(roles) => can_insert_expense(user)
     /\ canInsertIncome(roles) => can_insert_income(user)
     /\ canDelete(roles) => can_delete(user)
     /\ isAdmin(roles) => has_role(user, "admin")

\* C28: the session holds a user only if a signIn with the correct password
\* succeeded earlier and no signOut happened since (the stored id, written
\* by a successful signIn only and cleared by signOut, is that user's id); a
\* successful signUp alone leaves the session as it was; a failed signIn
\* leaves user, roles and the stored id unchanged; after signOut the user is
\* null, the roles are empty, the six permission predicates are false, and a
\* later page load restores no user.
C28_SessionOnlyBySignIn ==
  /\ [](user # None => storedUserId = user)
  /\ [][/\ storedUserId' \notin {None, storedUserId}
           => \E e \in SharedEmails :
                 /\ signIn(e, Password)
                 /\ resp'.error = ""
                 /\ \E u \in users : u.email = e /\ u.password = Password /\ u.id = user'
        /\ \A e \in SharedEmails, pw \in {Password, WrongPassword} :
              (signIn(e, pw) /\ resp'.error # "")
                 => UNCHANGED <<user, roles, storedUserId>>
        /\ \A e \in SharedEmails : ~signIn(e, WrongPassword) \/ resp'.error # ""
        /\ \A p \in Procs :
              (\/ \E e \in SharedEmails : signup_check(p, e)
               \/ signup_insert_user(p) \/ signup_count(p) \/ signup_insert_role(p))
                 => UNCHANGED <<user, roles, storedUserId>>
        /\ signOut
           => /\ user' = None /\ roles' = <<>> /\ storedUserId' = None
              /\ ~isAdmin(roles') /\ ~canView(roles') /\ ~canEdit(roles')
              /\ ~canInsertExpense(roles') /\ ~canInsertIncome(roles') /\ ~canDelete(roles')
        /\ (checkSession /\ storedUserId = None) => user' = None]_vars

C28_Witness ==
  /\ resp.op = "getUser"
  /\ user # None
  /\ storedUserId = user
  /\ roles = <<"view_only">>
  /\ Cardinality(users) = 2

\* C29: whenever the client's deleteTransaction(id) reports success and
\* drops the transaction from the local list, no transaction with that id
\* exists in the store any more; a delete to which the row-level policy does
\* not apply leaves the local list as it was.
C29_LocalDeleteMeansStoreDelete ==
  [][\A id \in TxIds :
        /\ (/\ onDelete(id)
            /\ resp'.error = ""
            /\ ~\E i \in 1..Len(txList') : txList'[i].id = id)
              => ~\E t \in transactions' : t.id = id
        /\ (onDelete(id) /\ ~DeletePolicy) => txList' = txList]_vars

\* C30: the new-transaction form is offered only when canInsertExpense or
\* canInsertIncome holds, and whatever the flags and the type selections
\* made, the type the form submits is one the user may insert: income only
\* if canInsertIncome, expense only if canInsertExpense; the type can be
\* switched only when both hold, and without the switch the type is expense
\* when canInsertExpense, otherwise income.
C30_FormSubmitsPermittedType ==
  /\ [](selectedType # "none" => canInsertExpense(roles) \/ canInsertIncome(roles))
  /\ []((selectedType # "none" /\ ~(canInsertExpense(roles) /\ canInsertIncome(roles)))
          => selectedType = (IF canInsertExpense(roles) THEN "expense" ELSE "income"))
  /\ [][/\ \A ty \in TransactionType :
              handleFormSubmit(FormOf(ty))
                 => /\ ty = "income" => canInsertIncome(roles)
                    /\ ty = "expense" => canInsertExpense(roles)
                    /\ resp'.error = "" => resp'.rows[1].type = ty
        /\ \A ty \in TransactionType :
              (setValue_type(ty) /\ selectedType' # selectedType)
                 => canInsertExpense(roles) /\ canInsertIncome(roles)]_vars

C30_Witness ==
  /\ resp.op = "addTransaction"
  /\ resp.error = ""
  /\ resp.rows[1].type = "income"
  /\ roles = <<"insert_income">>
  /\ selectedType = "income"

====
